---- MODULE Spec2Model ----
(***************************************************************************)
(* A model of ebisu.py: predictRecall / cacheIndependent, updateRecall /   *)
(* gb1ToBeta and modelToPercentileDecay.                                   *)
(*                                                                         *)
(* Numbers.  A Python float is modelled by an exact rational [n, d] in     *)
(* lowest terms with d > 0; d = 0 is the float +inf (numpy's 1/0.0).       *)
(* A log-domain float (a value of gammaln, betaln, np.log and their sums)  *)
(* is modelled by the quantity whose logarithm it is, kept as a positive   *)
(* rational r times a product of Gamma values g: [x |-> k] stands for      *)
(* Gamma(x)^k.  Adding logs multiplies, exp is the value itself, and a log *)
(* is > 0 exactly when the value is > 1.  Gamma values are only ever       *)
(* eliminated through Gamma(y+n) = y (y+1) ... (y+n-1) Gamma(y).           *)
(* lnDelta lives on the integer lattice and np.exp on it is 2^k: the       *)
(* lattice measures lnDelta in units of ln 2.                              *)
(***************************************************************************)
EXTENDS Integers, Sequences, FiniteSets, TLC

VARIABLES pred, call, model, decay

vars == <<pred, call, model, decay>>

\* ------------------------------------------------------------ bounds
MaxAlpha == 2
MaxBeta == 2
MaxT == 2
MaxTnow == 3
PDen == 10
MaxLnDelta == 9

\* ------------------------------------------------------------ floats
Abs(x) == IF x < 0 THEN -x ELSE x

RECURSIVE GCD(_, _)
GCD(a, b) == IF b = 0 THEN a ELSE GCD(b, a % b)

Inf == [n |-> 1, d |-> 0]

Rat(n, d) ==
  IF d = 0 THEN Inf
  ELSE LET k == GCD(Abs(n), Abs(d))
           s == IF d < 0 THEN -1 ELSE 1
       IN [n |-> (s * n) \div k, d |-> (s * d) \div k]

Num(k) == Rat(k, 1)
One == Num(1)

RAdd(x, y) == Rat(x.n * y.d + y.n * x.d, x.d * y.d)
RSub(x, y) == Rat(x.n * y.d - y.n * x.d, x.d * y.d)
RMul(x, y) == Rat(x.n * y.n, x.d * y.d)
\* x / y; a zero divisor gives +inf, as numpy's float64 does
RDiv(x, y) == IF y.n < 0 THEN Rat(-(x.n * y.d), x.d * (-y.n)) ELSE Rat(x.n * y.d, x.d * y.n)
RLt(x, y) == x.n * y.d < y.n * x.d
RLe(x, y) == x.n * y.d <= y.n * x.d
RPos(x) == x.n > 0
IsFinite(x) == x.d > 0
IsInt(x) == x.d = 1

\* ------------------------------------------------------------ log domain
\* x (x+1) ... (x+n-1)
RECURSIVE Rising(_, _)
Rising(x, n) == IF n = 0 THEN One ELSE RMul(Rising(x, n - 1), RAdd(x, Num(n - 1)))

\* Gamma(x) / Gamma(y) for x - y an integer
GammaRatio(x, y) ==
  LET n == RSub(x, y).n
  IN IF n >= 0 THEN Rising(y, n) ELSE RDiv(One, Rising(x, -n))

Exponent(g, x) == IF x \in DOMAIN g THEN g[x] ELSE 0

\* scipy.special.gammaln(x), x > 0
gammaln(x) == [r |-> One, g |-> (x :> 1)]

\* np.log(x), x > 0
log(x) == [r |-> x, g |-> << >>]

LCombine(a, b, s) ==
  LET D == DOMAIN a.g \cup DOMAIN b.g
      K == {x \in D : Exponent(a.g, x) + s * Exponent(b.g, x) /= 0}
  IN [r |-> IF s = 1 THEN RMul(a.r, b.r) ELSE RDiv(a.r, b.r),
      g |-> [x \in K |-> Exponent(a.g, x) + s * Exponent(b.g, x)]]

LAdd(a, b) == LCombine(a, b, 1)
LSub(a, b) == LCombine(a, b, -1)

\* the value with its Gamma factors paired off, nearest arguments first
RECURSIVE Reduce(_)
Reduce(v) ==
  LET P == {p \in (DOMAIN v.g) \X (DOMAIN v.g) :
              v.g[p[1]] > 0 /\ v.g[p[2]] < 0 /\ IsInt(RSub(p[1], p[2]))}
      dist(p) == Abs(RSub(p[1], p[2]).n)
  IN IF P = {} THEN v
     ELSE LET p == CHOOSE q \in P : \A w \in P : dist(q) <= dist(w)
              h == [x \in DOMAIN v.g |->
                      IF x = p[1] THEN v.g[x] - 1
                      ELSE IF x = p[2] THEN v.g[x] + 1 ELSE v.g[x]]
              K == {x \in DOMAIN h : h[x] /= 0}
          IN Reduce([r |-> RMul(v.r, GammaRatio(p[1], p[2])),
                     g |-> [x \in K |-> h[x]]])

\* the float is a number the lattice can name
Exact(v) == DOMAIN Reduce(v).g = {}
\* np.exp(v)
exp(v) == Reduce(v).r
\* v == 0.0 on a log-domain float
LIsZero(v) == Exact(v) /\ Reduce(v).r = One
\* v > 0, v < 0 on a log-domain float whose Gamma factors are paired off
LPos(v) == v.g = << >> /\ RLt(One, v.r)
LNeg(v) == v.g = << >> /\ RLt(v.r, One)

\* ------------------------------------------------------------ predictRecall
None == [tag |-> "None"]
Float(v) == [tag |-> "float", v |-> v]

\* Python's truth value of the keyword argument: None and 0.0 are false
Truthy(independent) == independent.tag = "float" /\ ~LIsZero(independent.v)

\* A bug cacheIndependent could have: gammaln(beta) in the place of gammaln(alpha).
cacheIndependentOfBeta(prior) ==
  LET alpha == prior[1]
      beta == prior[2]
  IN LSub(gammaln(RAdd(alpha, beta)), gammaln(beta))

cacheIndependent(prior) ==
  LET alpha == prior[1]
      beta == prior[2]
  IN LSub(gammaln(RAdd(alpha, beta)), gammaln(alpha))

\* A bug predictRecall could have: dt = t / tnow.
predictRecallInverted(prior, tnow, exact, independent) ==
  LET alpha == prior[1]
      beta == prior[2]
      t == prior[3]
      ind == IF ~Truthy(independent)
             THEN LSub(gammaln(RAdd(alpha, beta)), gammaln(alpha))
             ELSE independent.v
      dt == RDiv(t, tnow)
      ret == LAdd(LSub(gammaln(RAdd(alpha, dt)),
                       gammaln(RAdd(RAdd(alpha, beta), dt))), ind)
  IN IF exact THEN exp(ret) ELSE ret

predictRecall(prior, tnow, exact, independent) ==
  LET alpha == prior[1]
      beta == prior[2]
      t == prior[3]
      ind == IF ~Truthy(independent)
             THEN LSub(gammaln(RAdd(alpha, beta)), gammaln(alpha))
             ELSE independent.v
      dt == RDiv(tnow, t)
      ret == LAdd(LSub(gammaln(RAdd(alpha, dt)),
                       gammaln(RAdd(RAdd(alpha, beta), dt))), ind)
  IN IF exact THEN exp(ret) ELSE ret

\* ------------------------------------------------------------ inputs
Alphas == {Rat(k, 2) : k \in 1..(2 * MaxAlpha)}
Betas == {Num(k) : k \in 1..MaxBeta}
Times == {Num(k) : k \in 1..MaxT}
Tnows == {Num(k) : k \in 1..MaxTnow}
Models == Alphas \X Betas \X Times

NoCall == [made |-> FALSE]
NoDecay == [pc |-> "idle"]

\* ------------------------------------------------------------ the predictor
\* pred: the model under study, the cached hint (None until computed) and
\* the last two calls of predictRecall.
InitPredict ==
  /\ pred \in [prior : Models, cache : {None}, prev : {NoCall}, last : {NoCall}]
  /\ call = NoCall
  /\ model = <<One, One, One>>
  /\ decay = NoDecay

CacheIndependent ==
  /\ pred' = [pred EXCEPT !.cache = Float(cacheIndependent(pred.prior))]
  /\ UNCHANGED <<call, model, decay>>

PredictRecall(tnow, exact, independent) ==
  /\ pred' = [pred EXCEPT
                !.prev = pred.last,
                !.last = [made |-> TRUE, tnow |-> tnow, exact |-> exact,
                          independent |-> independent,
                          ret |-> predictRecall(pred.prior, tnow, exact, independent)]]
  /\ UNCHANGED <<call, model, decay>>

NextPredict ==
  \/ CacheIndependent
  \/ \E tnow \in Tnows, exact \in BOOLEAN, independent \in {None, pred.cache} :
       PredictRecall(tnow, exact, independent)

SpecPredict == InitPredict /\ [][NextPredict]_vars

\* Both of the last two calls asked for the probability itself.
BothExact == pred.prev.made /\ pred.last.made /\ pred.prev.exact /\ pred.last.exact

\* C5: for a valid model and tnow2 > tnow1 > 0 the exact recall probability at
\* tnow1 is at least the one at tnow2, and both lie in [0, 1].
C5_MonotoneDecay ==
  (BothExact /\ RLt(pred.prev.tnow, pred.last.tnow)) =>
     /\ RLe(pred.last.ret, pred.prev.ret)
     /\ RLe(Num(0), pred.last.ret) /\ RLe(pred.last.ret, One)
     /\ RLe(Num(0), pred.prev.ret) /\ RLe(pred.prev.ret, One)

C5_Witness ==
  /\ BothExact
  /\ RLt(pred.prev.tnow, pred.last.tnow)
  /\ RLt(pred.last.ret, pred.prev.ret)
  /\ ~IsInt(pred.prior[1])

\* One of the last two calls was handed cacheIndependent's value and the other
\* no hint, at the same elapsed time.
CachedAndPlain ==
  /\ BothExact
  /\ pred.prev.tnow = pred.last.tnow
  /\ pred.prev.independent = None
  /\ pred.last.independent = Float(cacheIndependent(pred.prior))

\* C7: predictRecall with independent = cacheIndependent(model) returns what
\* it returns with independent omitted, also when the cached value is 0.
C7_CacheHintSameResult == CachedAndPlain => pred.last.ret = pred.prev.ret

C7_Witness ==
  /\ CachedAndPlain
  /\ LIsZero(pred.last.independent.v)
  /\ pred.last.ret = pred.prev.ret

\* ------------------------------------------------------------ the updater
\* A bug gb1ToBeta could have: p and q swapped.
gb1ToBetaSwapped(gb1) == <<gb1[4], gb1[3], RMul(gb1[5], gb1[1])>>

gb1ToBeta(gb1) == <<gb1[3], gb1[4], RMul(gb1[5], gb1[1])>>

\* the box handed to least_squares: bounds=((1.01, 0), (np.inf, np.inf))
BetaLowerBound == Rat(101, 100)
DeltaLowerBound == Num(0)

\* What least_squares may hand back: a point of the box, converged or not.
FitBetas == {b \in {Rat(101, 100), Num(2)} : RLe(BetaLowerBound, b)}
FitDeltas == {d \in {Num(0), Rat(1, 2), Num(2)} : RLe(DeltaLowerBound, d)}
LeastSquaresResults == [x : FitBetas \X FitDeltas, success : BOOLEAN]
NoFit == [x |-> <<One, One>>, success |-> TRUE]

\* The exception the call ends in, or "none".  Python's float division raises
\* on a zero divisor (dt = 0 in 1.0 / dt); newDelta is a numpy float64 and
\* 1 / newDelta is +inf there.  The fit's success flag is never read.
updateRecallRaises(prior, result, tnow, res) ==
  LET t == prior[3]
  IN IF t.n = 0 THEN "ZeroDivisionError"
     ELSE IF result /\ RDiv(tnow, t).n = 0 THEN "ZeroDivisionError"
     ELSE "none"

updateRecall(prior, result, tnow, res) ==
  LET alpha == prior[1]
      beta == prior[2]
      t == prior[3]
      dt == RDiv(tnow, t)
      gb1 == IF result
             THEN <<RDiv(One, dt), One, RAdd(alpha, dt), beta, tnow>>
             ELSE LET newBeta == res.x[1]
                      newDelta == res.x[2]
                  IN <<RDiv(One, newDelta), One, alpha, newBeta, tnow>>
  IN gb1ToBeta(gb1)

\* alpha > 0, beta > 0, t > 0, all finite
ValidModel(m) ==
  /\ RPos(m[1]) /\ IsFinite(m[1])
  /\ RPos(m[2]) /\ IsFinite(m[2])
  /\ RPos(m[3]) /\ IsFinite(m[3])

\* Elapsed times a caller may pass, the non-positive ones included.
QuizTimes == {Num(k) : k \in (-1)..MaxTnow}

InitUpdate ==
  /\ model \in Models
  /\ call = NoCall
  /\ pred = [prior |-> <<One, One, One>>, cache |-> None, prev |-> NoCall, last |-> NoCall]
  /\ decay = NoDecay

\* One call updateRecall(model, result, tnow).  On a failed quiz the moments
\* and the fit are only defined for tnow > 0; res is the solver's answer.
UpdateRecall(result, tnow, res) ==
  /\ result \/ RPos(tnow)
  /\ result <=> res = NoFit
  /\ LET raises == updateRecallRaises(model, result, tnow, res)
     IN call' = [made |-> TRUE, prior |-> model, result |-> result, tnow |-> tnow,
                 res |-> res, raises |-> raises,
                 ret |-> IF raises = "none" THEN updateRecall(model, result, tnow, res)
                         ELSE model]
  /\ UNCHANGED <<model, pred, decay>>

\* The caller keeps the posterior as the fact's model for the next quiz
\* (while it stays on the grid of models explored).
Adopt ==
  /\ call.made /\ call.raises = "none"
  /\ ValidModel(call.ret)
  /\ call.ret[1] \in Alphas /\ call.ret[3] \in Times
  /\ model' = call.ret
  /\ call' = NoCall
  /\ UNCHANGED <<pred, decay>>

NextUpdate ==
  \/ \E result \in BOOLEAN, tnow \in QuizTimes, res \in LeastSquaresResults \cup {NoFit} :
       UpdateRecall(result, tnow, res)
  \/ Adopt

SpecUpdate == InitUpdate /\ [][NextUpdate]_vars

\* A call on a valid prior with tnow > 0 that returned.
ValidCall == call.made /\ ValidModel(call.prior) /\ RPos(call.tnow)
Returned == call.made /\ call.raises = "none"

\* C1: on a successful quiz of a valid prior at tnow > 0 the returned model
\* has t' = tnow, alpha' > 0 and beta' > 0.
C1_SuccessAtTnow ==
  (ValidCall /\ call.result) =>
     /\ Returned
     /\ call.ret[3] = call.tnow
     /\ RPos(call.ret[1]) /\ RPos(call.ret[2])

\* C2: every model updateRecall returns from a valid prior, tnow > 0 and a
\* fit inside its box is a valid model: alpha, beta, t positive and finite.
\* (Stated for the fits that converged: those of C3 are left aside.)
C2_PosteriorValid ==
  (ValidCall /\ Returned /\ call.res.success) => ValidModel(call.ret)

\* C3: on a failed quiz whose fit did not converge the call ends in a
\* NumericalFitError and returns no model.
\* (Stated for the fits with delta > 0: those of C2 are left aside.)
C3_NoModelUnlessConverged ==
  (ValidCall /\ ~call.result /\ ~call.res.success /\ RPos(call.res.x[2])) =>
     call.raises = "NumericalFitError"

\* C4: a call with a non-positive alpha, beta, t or tnow ends in an
\* InvalidArgument error.
C4_InvalidArgumentRejected ==
  (call.made /\ ~(ValidModel(call.prior) /\ RPos(call.tnow))) =>
     call.raises = "InvalidArgument"

\* C10: a successful quiz keeps beta and returns alpha + tnow / t; a failed
\* one keeps alpha and returns the fitted beta (>= 1.01); the call leaves the
\* prior it was handed as it was.
C10_OneShapePerCall ==
  /\ [] ((ValidCall /\ Returned) =>
           IF call.result
           THEN /\ call.ret[2] = call.prior[2]
                /\ call.ret[1] = RAdd(call.prior[1], RDiv(call.tnow, call.prior[3]))
           ELSE /\ call.ret[1] = call.prior[1]
                /\ call.ret[2] = call.res.x[1]
                /\ RLe(Rat(101, 100), call.ret[2]))
  /\ [][call'.made => (model' = model /\ call'.prior = model)]_vars

C10_Witness ==
  /\ ValidCall /\ Returned /\ ~call.result
  /\ call.ret[2] /= call.prior[2]
  /\ call.prior[1] /= Num(1) /\ ~IsInt(call.prior[1])

\* ------------------------------------------------------------ the inverter
betaln(p, q) == LSub(LAdd(gammaln(p), gammaln(q)), gammaln(RAdd(p, q)))

\* np.exp(lndelta) on the lattice of lnDelta: 2^lndelta
expLattice(k) == IF k >= 0 THEN Num(2 ^ k) ELSE Rat(1, 2 ^ (-k))

bracket_width == 6

\* the closure f of modelToPercentileDecay, with the variables it captures
f(alpha, beta, logBab, logPercentile, lndelta) ==
  LET logMean == LSub(betaln(RAdd(alpha, expLattice(lndelta)), beta), logBab)
  IN Reduce(LSub(logMean, logPercentile))

\* A bug the return could have: the root's delta not scaled by t0.
decayReturnUnscaled(root, t0) == expLattice(root)

\* t1 = np.exp(sol.root) * t0
decayReturn(root, t0) == RMul(expLattice(root), t0)

\* beta <= 2 keeps the Gamma quotients at 2^-9 inside 32-bit integers
DecayModels == {m \in Models : RLe(m[2], Num(2))}
Percentiles == {Rat(k, PDen) : k \in 1..(PDen - 1)}
Lattice == (-MaxLnDelta)..MaxLnDelta

\* f is a pure function of (model, percentile, lndelta): its values, computed
\* once.  (@@ makes the table an explicit one.)
fTable ==
  [a \in DecayModels \X Percentiles \X Lattice |->
     f(a[1][1], a[1][2], betaln(a[1][1], a[1][2]), log(a[2]), a[3])] @@ << >>

fOf(d, lndelta) == fTable[<<d.model, d.percentile, lndelta>>]

InitDecay ==
  /\ decay = NoDecay
  /\ call = NoCall
  /\ model = <<One, One, One>>
  /\ pred = [prior |-> <<One, One, One>>, cache |-> None, prev |-> NoCall, last |-> NoCall]

\* Entry: the assignments before the first loop.
DecayCall(m, percentile) ==
  /\ decay.pc = "idle"
  /\ LET alpha == m[1]
         beta == m[2]
         logBab == betaln(alpha, beta)
         logPercentile == log(percentile)
         blow == -(bracket_width \div 2)
         bhigh == bracket_width \div 2
     IN decay' = [pc |-> "up", model |-> m, percentile |-> percentile,
                  logBab |-> logBab, logPercentile |-> logPercentile,
                  blow |-> blow, bhigh |-> bhigh,
                  flow |-> f(alpha, beta, logBab, logPercentile, blow),
                  fhigh |-> f(alpha, beta, logBab, logPercentile, bhigh),
                  ups |-> 0, downs |-> 0, root |-> 0, exact |-> FALSE,
                  ret |-> Num(0), raises |-> "none"]
  /\ UNCHANGED <<pred, call, model>>

\* A bug a slide of the first loop could have: flow takes the new fhigh.
ScanUpStale ==
  /\ decay.pc = "up"
  /\ IF LPos(decay.flow) /\ LPos(decay.fhigh)
     THEN LET bhigh == decay.bhigh + bracket_width
          IN decay' = [decay EXCEPT !.blow = decay.bhigh,
                                    !.bhigh = bhigh,
                                    !.fhigh = fOf(decay, bhigh),
                                    !.flow = fOf(decay, bhigh),
                                    !.ups = decay.ups + 1]
     ELSE decay' = [decay EXCEPT !.pc = "down"]
  /\ UNCHANGED <<pred, call, model>>

\* while flow > 0 and fhigh > 0: one test of the condition, and one slide up
\* when it holds.
ScanUp ==
  /\ decay.pc = "up"
  /\ IF LPos(decay.flow) /\ LPos(decay.fhigh)
     THEN LET bhigh == decay.bhigh + bracket_width
          IN decay' = [decay EXCEPT !.blow = decay.bhigh,
                                    !.flow = decay.fhigh,
                                    !.bhigh = bhigh,
                                    !.fhigh = fOf(decay, bhigh),
                                    !.ups = decay.ups + 1]
     ELSE decay' = [decay EXCEPT !.pc = "down"]
  /\ UNCHANGED <<pred, call, model>>

\* while flow < 0 and fhigh < 0: one test, and one slide down when it holds.
ScanDown ==
  /\ decay.pc = "down"
  /\ IF LNeg(decay.flow) /\ LNeg(decay.fhigh)
     THEN LET blow == decay.blow - bracket_width
          IN decay' = [decay EXCEPT !.bhigh = decay.blow,
                                    !.fhigh = decay.flow,
                                    !.blow = blow,
                                    !.flow = fOf(decay, blow),
                                    !.downs = decay.downs + 1]
     ELSE decay' = [decay EXCEPT !.pc = "assert"]
  /\ UNCHANGED <<pred, call, model>>

\* assert flow > 0 and fhigh < 0
AssertBracket ==
  /\ decay.pc = "assert"
  /\ IF LPos(decay.flow) /\ LNeg(decay.fhigh)
     THEN decay' = [decay EXCEPT !.pc = "solve"]
     ELSE decay' = [decay EXCEPT !.pc = "done", !.raises = "AssertionError"]
  /\ UNCHANGED <<pred, call, model>>

\* root_scalar(f, bracket=[blow, bhigh]) and the return.  The solver answers
\* with the lattice point at the zero of f, or the one just below it (its
\* tolerance is one lattice step).
RootSolve ==
  /\ decay.pc = "solve"
  /\ \E root \in decay.blow..(decay.bhigh - 1) :
       /\ ~LNeg(fOf(decay, root))
       /\ LNeg(fOf(decay, root + 1))
       /\ decay' = [decay EXCEPT !.pc = "done", !.root = root,
                                 !.exact = LIsZero(fOf(decay, root)),
                                 !.ret = decayReturn(root, decay.model[3])]
  /\ UNCHANGED <<pred, call, model>>

\* The call is over (t1 returned, or the AssertionError raised) and the
\* caller is free to make the next one.
DecayDone ==
  /\ decay.pc = "done"
  /\ decay' = NoDecay
  /\ UNCHANGED <<pred, call, model>>

NextDecay ==
  \/ \E m \in DecayModels, percentile \in Percentiles : DecayCall(m, percentile)
  \/ ScanUp
  \/ ScanDown
  \/ AssertBracket
  \/ RootSolve
  \/ DecayDone

SpecDecay == InitDecay /\ [][NextDecay]_vars

\* A call, once entered, runs on: the interpreter does not stop mid-function.
LiveDecay == SpecDecay /\ WF_vars(ScanUp \/ ScanDown \/ AssertBracket \/ RootSolve)

DecayReturned == decay.pc = "done" /\ decay.raises = "none"

\* C6: the time modelToPercentileDecay returns is where predictRecall gives
\* the percentile: exactly when the solver hit the zero of f, and within the
\* solver's tolerance (one lattice step) otherwise.
C6_InverseOfPredictRecall ==
  DecayReturned =>
    LET here == predictRecall(decay.model, decay.ret, TRUE, None)
        next == predictRecall(decay.model, RMul(Num(2), decay.ret), TRUE, None)
    IN /\ decay.exact => here = decay.percentile
       /\ RLe(decay.percentile, here)
       /\ RLt(next, decay.percentile)

C6_Witness ==
  /\ DecayReturned /\ decay.exact
  /\ decay.model[3] /= One
  /\ decay.root /= 0
  /\ predictRecall(decay.model, decay.ret, TRUE, None) = decay.percentile

\* C8: the bracket search ends after finitely many slides, and slides in one
\* direction only.
C8_SearchTerminatesOneWay ==
  /\ [](decay.pc /= "idle" => (decay.ups = 0 \/ decay.downs = 0))
  /\ (decay.pc \in {"up", "down"}) ~> (decay.pc \in {"solve", "done"})

C8_Witness == decay.pc = "done" /\ decay.downs > 0

\* C9: when the two loops have exited, f(low) > 0 and f(high) < 0 hold for a
\* window of width 6.
C9_BracketOnExit ==
  decay.pc = "assert" =>
    /\ LPos(decay.flow) /\ LNeg(decay.fhigh)
    /\ decay.bhigh - decay.blow = bracket_width

====
